---- MODULE Spec2Model ----
(***************************************************************************)
(* PDF document management API (src/main.py, src/database.py,              *)
(* src/models.py): the documents table, the request handlers that write    *)
(* and read it, and the pure extraction helpers the upload handler calls.  *)
(*                                                                         *)
(* A text is a sequence of one-character strings.  An optional value       *)
(* (Python's None, SQL's NULL) is None or Some(v).                         *)
(***************************************************************************)
EXTENDS Integers, Sequences, FiniteSets, TLC

None == <<>>
Some(v) == <<v>>

(***************************************************************************)
(* Characters                                                              *)
(***************************************************************************)
LowerAZ == {"a","b","c","d","e","f","g","h","i","j","k","l","m",
            "n","o","p","q","r","s","t","u","v","w","x","y","z"}

UpperAZ == {"A","B","C","D","E","F","G","H","I","J","K","L","M",
            "N","O","P","Q","R","S","T","U","V","W","X","Y","Z"}

Digit == {"0","1","2","3","4","5","6","7","8","9"}

Alpha == LowerAZ \cup UpperAZ

AlNum == Alpha \cup Digit

\* \s of the re module and the characters str.strip() removes (ASCII part)
Whitespace == {" ", "\t", "\n", "\r", "\f"}

\* \w of the re module (ASCII part)
WordChar == AlNum \cup {"_"}

LowerOf == [c \in UpperAZ |->
              CASE c = "A" -> "a" [] c = "B" -> "b" [] c = "C" -> "c" [] c = "D" -> "d"
                [] c = "E" -> "e" [] c = "F" -> "f" [] c = "G" -> "g" [] c = "H" -> "h"
                [] c = "I" -> "i" [] c = "J" -> "j" [] c = "K" -> "k" [] c = "L" -> "l"
                [] c = "M" -> "m" [] c = "N" -> "n" [] c = "O" -> "o" [] c = "P" -> "p"
                [] c = "Q" -> "q" [] c = "R" -> "r" [] c = "S" -> "s" [] c = "T" -> "t"
                [] c = "U" -> "u" [] c = "V" -> "v" [] c = "W" -> "w" [] c = "X" -> "x"
                [] c = "Y" -> "y" [] c = "Z" -> "z"]

\* str.lower() and SQL lower() on one character / on a text
LowerChar(c) == IF c \in UpperAZ THEN LowerOf[c] ELSE c

Lower(s) == [i \in 1..Len(s) |-> LowerChar(s[i])]

(***************************************************************************)
(* Sequence helpers                                                        *)
(***************************************************************************)
ToSet(s) == {s[i] : i \in 1..Len(s)}

\* every ordering of a finite set, as sequences without repetition
Orderings(S) == {f \in [1..Cardinality(S) -> S] : \A i, j \in 1..Cardinality(S) : f[i] = f[j] => i = j}

NoDuplicates(s) == \A i, j \in 1..Len(s) : s[i] = s[j] => i = j

(***************************************************************************)
(* The regular expressions of extract_entities, as syntax trees, and a     *)
(* backtracking matcher in the order the re module tries alternatives.     *)
(***************************************************************************)
Unbounded == -1

Cls(S) == [t |-> "cls", s |-> S]
NotCls(S) == [t |-> "ncls", s |-> S]
Rep(r, lo, hi) == [t |-> "rep", r |-> r, lo |-> lo, hi |-> hi]
Cat(rs) == [t |-> "cat", rs |-> rs]
Alt(rs) == [t |-> "alt", rs |-> rs]
WordBoundary == [t |-> "wb"]
Lit(s) == Cat([i \in 1..Len(s) |-> Cls({s[i]})])

\* re.IGNORECASE on a character set / on a literal
AnyCase(S) == S \cup {c \in Alpha : LowerChar(c) \in {LowerChar(d) : d \in S}}
LitAnyCase(s) == Cat([i \in 1..Len(s) |-> Cls(AnyCase({s[i]}))])

IsWordAt(s, i) == i >= 1 /\ i <= Len(s) /\ s[i] \in WordChar

\* MatchEnds(r, s, i): the positions just past a match of r that starts at
\* position i of s, in the order backtracking reaches them
RECURSIVE MatchEnds(_, _, _)
RECURSIVE MatchEndsFrom(_, _, _)
RECURSIVE CatEnds(_, _, _, _)
RECURSIVE AltEnds(_, _, _, _)
RECURSIVE RepEnds(_, _, _, _)
RECURSIVE RepMore(_, _, _, _)

MatchEndsFrom(r, s, starts) ==
    IF starts = <<>> THEN <<>>
    ELSE MatchEnds(r, s, Head(starts)) \o MatchEndsFrom(r, s, Tail(starts))

CatEnds(rs, k, s, starts) ==
    IF k > Len(rs) THEN starts
    ELSE CatEnds(rs, k + 1, s, MatchEndsFrom(rs[k], s, starts))

AltEnds(rs, k, s, i) ==
    IF k > Len(rs) THEN <<>>
    ELSE MatchEnds(rs[k], s, i) \o AltEnds(rs, k + 1, s, i)

RepMore(r, s, ends, n) ==
    IF ends = <<>> THEN <<>>
    ELSE RepEnds(r, s, Head(ends), n) \o RepMore(r, s, Tail(ends), n)

\* greedy: one more repetition is tried before stopping
RepEnds(r, s, i, n) ==
    (IF r.hi = Unbounded \/ n < r.hi
        THEN RepMore(r, s, SelectSeq(MatchEnds(r.r, s, i), LAMBDA e : e > i), n + 1)
        ELSE <<>>)
    \o (IF n >= r.lo THEN <<i>> ELSE <<>>)

MatchEnds(r, s, i) ==
    CASE r.t = "cls"  -> IF i <= Len(s) /\ s[i] \in r.s THEN <<i + 1>> ELSE <<>>
      [] r.t = "ncls" -> IF i <= Len(s) /\ s[i] \notin r.s THEN <<i + 1>> ELSE <<>>
      [] r.t = "wb"   -> IF IsWordAt(s, i - 1) # IsWordAt(s, i) THEN <<i>> ELSE <<>>
      [] r.t = "cat"  -> CatEnds(r.rs, 1, s, <<i>>)
      [] r.t = "alt"  -> AltEnds(r.rs, 1, s, i)
      [] r.t = "rep"  -> RepEnds(r, s, i, 0)

\* re.findall(pattern, text) for a pattern without capturing groups:
\* the leftmost non-overlapping matches, scanning left to right
RECURSIVE FindAllFrom(_, _, _)
FindAllFrom(r, s, i) ==
    IF i > Len(s) + 1 THEN <<>>
    ELSE LET ends == MatchEnds(r, s, i) IN
         IF ends = <<>> THEN FindAllFrom(r, s, i + 1)
         ELSE LET e == Head(ends) IN
              IF e = i THEN FindAllFrom(r, s, i + 1)
              ELSE <<SubSeq(s, i, e - 1)>> \o FindAllFrom(r, s, e)

findall(r, s) == FindAllFrom(r, s, 1)

email_pattern ==
    Cat(<< Rep(Cls(AlNum \cup {".", "_", "%", "+", "-"}), 1, Unbounded),
           Cls({"@"}),
           Rep(Cls(AlNum \cup {".", "-"}), 1, Unbounded),
           Cls({"."}),
           Rep(Cls(Alpha), 2, Unbounded) >>)

PhoneSep == Rep(Cls({"-", "."} \cup Whitespace), 0, 1)

phone_pattern ==
    Cat(<< Rep(Cls({"("}), 0, 1), Rep(Cls(Digit), 3, 3), Rep(Cls({")"}), 0, 1),
           PhoneSep, Rep(Cls(Digit), 3, 3), PhoneSep, Rep(Cls(Digit), 4, 4) >>)

\* the excluded set of the source also holds the backquote, a character no
\* text of this model contains
url_pattern ==
    Cat(<< Lit(<<"h","t","t","p">>), Rep(Cls({"s"}), 0, 1), Lit(<<":","/","/">>),
           Rep(NotCls(Whitespace \cup {"<", ">", "\"", "{", "}", "|", "\\", "^", "[", "]"}),
               1, Unbounded) >>)

DateSep == Cls({"-", "/"})

MonthNames == << <<"J","a","n">>, <<"F","e","b">>, <<"M","a","r">>, <<"A","p","r">>,
                 <<"M","a","y">>, <<"J","u","n">>, <<"J","u","l">>, <<"A","u","g">>,
                 <<"S","e","p">>, <<"O","c","t">>, <<"N","o","v">>, <<"D","e","c">> >>

\* compiled with re.IGNORECASE
date_pattern ==
    Cat(<< WordBoundary,
           Alt(<< Cat(<< Rep(Cls(Digit), 1, 2), DateSep, Rep(Cls(Digit), 1, 2), DateSep,
                         Rep(Cls(Digit), 2, 4) >>),
                  Cat(<< Rep(Cls(Digit), 4, 4), DateSep, Rep(Cls(Digit), 1, 2), DateSep,
                         Rep(Cls(Digit), 1, 2) >>),
                  Cat(<< Alt([k \in 1..Len(MonthNames) |-> LitAnyCase(MonthNames[k])]),
                         Rep(Cls(AnyCase(LowerAZ)), 0, Unbounded),
                         Rep(Cls({"."}), 0, 1),
                         Rep(Cls(Whitespace), 1, Unbounded),
                         Rep(Cls(Digit), 1, 2),
                         Rep(Cls({","}), 0, 1),
                         Rep(Cls(Whitespace), 1, Unbounded),
                         Rep(Cls(Digit), 4, 4) >>) >>),
           WordBoundary >>)

(***************************************************************************)
(* Extraction functions (src/main.py)                                      *)
(***************************************************************************)
\* the page texts in page order; a page whose extract_text() is None adds ""
RECURSIVE PagesText(_)
PagesText(pages) ==
    IF pages = <<>> THEN <<>>
    ELSE (IF Head(pages) = None THEN <<>> ELSE Head(pages)[1]) \o PagesText(Tail(pages))

\* the dict extract_text_from_pdf returns for a stream PdfReader can decode
\* (pdf_created_at is carried to the row untouched and read by no query;
\* it is left out of the rows of this model)
extract_text_from_pdf(file) ==
    [text |-> PagesText(file.pages),
     page_count |-> Len(file.pages),
     title |-> file.title,
     author |-> file.author]

\* list(set(...)) fixes no order: every ordering of the distinct matches
\* is a possible result
extract_entities_emails_only(text) ==
    {[emails |-> e, phone_numbers |-> p, urls |-> u, dates |-> d,
      pii_found |-> Len(e) > 0] :
        e \in Orderings(ToSet(findall(email_pattern, text))),
        p \in Orderings(ToSet(findall(phone_pattern, text))),
        u \in Orderings(ToSet(findall(url_pattern, text))),
        d \in Orderings(ToSet(findall(date_pattern, text)))}

extract_entities(text) ==
    {[emails |-> e, phone_numbers |-> p, urls |-> u, dates |-> d,
      pii_found |-> (Len(e) > 0 \/ Len(p) > 0)] :
        e \in Orderings(ToSet(findall(email_pattern, text))),
        p \in Orderings(ToSet(findall(phone_pattern, text))),
        u \in Orderings(ToSet(findall(url_pattern, text))),
        d \in Orderings(ToSet(findall(date_pattern, text)))}

\* len(text.split()): the maximal runs of non-whitespace characters
WordStarts(text) ==
    {i \in 1..Len(text) : text[i] \notin Whitespace /\ (i = 1 \/ text[i - 1] \in Whitespace)}

compute_content_stats(text) ==
    [word_count |-> Cardinality(WordStarts(text)), char_count |-> Len(text)]

(***************************************************************************)
(* Helper functions (src/main.py)                                          *)
(***************************************************************************)
\* ",".join(items)
RECURSIVE Join(_)
Join(items) ==
    IF items = <<>> THEN <<>>
    ELSE IF Len(items) = 1 THEN items[1]
    ELSE items[1] \o <<",">> \o Join(Tail(items))

\* value.split(",")
RECURSIVE Split(_)
Split(value) ==
    IF \A i \in 1..Len(value) : value[i] # ","
    THEN <<value>>
    ELSE LET k == CHOOSE i \in 1..Len(value) :
                        value[i] = "," /\ \A j \in 1..(i - 1) : value[j] # ","
         IN <<SubSeq(value, 1, k - 1)>> \o Split(SubSeq(value, k + 1, Len(value)))

\* item.strip()
Strip(item) ==
    LET keep == {i \in 1..Len(item) : item[i] \notin Whitespace} IN
    IF keep = {} THEN <<>>
    ELSE SubSeq(item, CHOOSE i \in keep : \A j \in keep : i <= j,
                      CHOOSE i \in keep : \A j \in keep : j <= i)

StripAll(items) == [i \in 1..Len(items) |-> Strip(items[i])]

parse_list(value) ==
    IF value = <<>> THEN <<>>
    ELSE SelectSeq(StripAll(Split(value)), LAMBDA item : item # <<>>)

to_list_response(doc) ==
    [id |-> doc.id,
     filename |-> doc.filename,
     title |-> doc.title,
     author |-> doc.author,
     page_count |-> doc.page_count,
     word_count |-> doc.word_count,
     file_size |-> doc.file_size,
     pii_found |-> doc.pii_found,
     emails_count |-> Len(parse_list(doc.emails_found)),
     phones_count |-> Len(parse_list(doc.phone_numbers_found)),
     created_at |-> doc.created_at]

to_full_response(doc) ==
    [id |-> doc.id,
     filename |-> doc.filename,
     title |-> doc.title,
     author |-> doc.author,
     page_count |-> doc.page_count,
     word_count |-> doc.word_count,
     char_count |-> doc.char_count,
     file_size |-> doc.file_size,
     extracted_text |-> doc.extracted_text,
     emails_found |-> parse_list(doc.emails_found),
     phone_numbers_found |-> parse_list(doc.phone_numbers_found),
     urls_found |-> parse_list(doc.urls_found),
     dates_found |-> parse_list(doc.dates_found),
     pii_found |-> doc.pii_found,
     created_at |-> doc.created_at]

(***************************************************************************)
(* The documents table (src/database.py) and what the SQLite engine does   *)
(* with the statements the handlers issue                                  *)
(***************************************************************************)
Max(S) == CHOOSE x \in S : \A y \in S : y <= x

Min2(a, b) == IF a <= b THEN a ELSE b

\* id = Column(Integer, primary_key=True) on SQLite is an alias of the rowid
\* of a table declared without AUTOINCREMENT: a new row gets one more than
\* the largest rowid now in the table
NextRowIdByCount(rows) == Cardinality(rows) + 1

NextRowId(rows) == IF rows = {} THEN 1 ELSE Max({r.id : r \in rows}) + 1

\* the DocumentMetadata(...) of upload_file, with the two columns the
\* insert fills in: the primary key and created_at (default=datetime.utcnow)
NewRow(filename, file_size, pdf_data, entities, stats, id, created_at) ==
    [id |-> id,
     filename |-> filename,
     title |-> pdf_data.title,
     author |-> pdf_data.author,
     page_count |-> pdf_data.page_count,
     word_count |-> stats.word_count,
     char_count |-> stats.char_count,
     file_size |-> file_size,
     extracted_text |-> pdf_data.text,
     emails_found |-> Join(entities.emails),
     phone_numbers_found |-> Join(entities.phone_numbers),
     urls_found |-> Join(entities.urls),
     dates_found |-> Join(entities.dates),
     pii_found |-> entities.pii_found,
     created_at |-> created_at]

\* SQL LIKE: % matches any run of characters, _ matches one character
RECURSIVE Like(_, _)
Like(pattern, s) ==
    IF pattern = <<>> THEN s = <<>>
    ELSE IF Head(pattern) = "%"
         THEN Like(Tail(pattern), s) \/ (s # <<>> /\ Like(pattern, Tail(s)))
         ELSE /\ s # <<>>
              /\ (Head(pattern) = "_" \/ Head(pattern) = Head(s))
              /\ Like(Tail(pattern), Tail(s))

\* column.ilike(term) is rendered lower(column) LIKE lower(term); it is not
\* true of a NULL column
ilike(column, term) == column # None /\ Like(Lower(term), Lower(column[1]))

\* f"%{q}%"
Wrap(q) == <<"%">> \o q \o <<"%">>

\* ORDER BY created_at DESC.  Rows with equal created_at come in the order
\* of the engine's scan, by rowid upwards or downwards; tie names which.
Before(r1, r2, tie) ==
    \/ r1.created_at > r2.created_at
    \/ /\ r1.created_at = r2.created_at
       /\ IF tie = "asc" THEN r1.id < r2.id ELSE r1.id > r2.id

RECURSIVE order_by_created_at_desc(_, _)
order_by_created_at_desc(rows, tie) ==
    IF rows = {} THEN <<>>
    ELSE LET first == CHOOSE r \in rows : \A o \in rows \ {r} : Before(r, o, tie)
         IN <<first>> \o order_by_created_at_desc(rows \ {first}, tie)

\* .offset(offset).limit(limit): a negative LIMIT is no limit in SQLite
OffsetLimitNoSkip(ordered, offset, limit) ==
    IF limit < 0 THEN ordered ELSE SubSeq(ordered, 1, Min2(limit, Len(ordered)))

OffsetLimit(ordered, offset, limit) ==
    LET rest == SubSeq(ordered, offset + 1, Len(ordered)) IN
    IF limit < 0 THEN rest ELSE SubSeq(rest, 1, Min2(limit, Len(rest)))

(***************************************************************************)
(* Inputs: the uploaded files and the request parameters                   *)
(***************************************************************************)
MaxDocs == 3
MaxClock == 1
MaxId == MaxDocs + 1
MaxLimit == 500

Email1 == <<"a","@","b",".","c","o">>
Phone1 == <<"(","4","1","5",")"," ","5","5","5","-","1","2","1","2">>
Url1 == <<"h","t","t","p",":","/","/","x">>
Date1 == <<"M","a","y"," ","5",","," ","2","0","2","4">>

\* an upload: its filename, whether PdfReader can decode its bytes, its
\* size in bytes and, for a decodable one, its pages (None: a page without
\* text) and its /Title and /Author
PdfMail ==
    [filename |-> <<"a",".","p","d","f">>, decodable |-> TRUE, size |-> 13,
     pages |-> <<Some(Email1 \o <<" ">> \o Email1)>>,
     title |-> None, author |-> Some(<<"B","o","b">>)]

PdfPhone ==
    [filename |-> <<"b",".","P","D","F">>, decodable |-> TRUE, size |-> 14,
     pages |-> <<Some(Phone1), None>>,
     title |-> None, author |-> Some(<<"A","l">>)]

PdfLinks ==
    [filename |-> <<"c",".","p","d","f">>, decodable |-> TRUE, size |-> 29,
     pages |-> <<Some(Url1 \o <<",">> \o Url1 \o <<" ">> \o Date1)>>,
     title |-> Some(<<"B","o">>), author |-> None]

PdfPlain ==
    [filename |-> <<"d",".","p","d","f">>, decodable |-> TRUE, size |-> 12,
     pages |-> <<None, Some(<<"a","@","b"," ","5","5","5","-","1","2","1","2">>)>>,
     title |-> Some(<<>>), author |-> Some(<<>>)]

PdfBroken ==
    [filename |-> <<"e",".","p","d","f">>, decodable |-> FALSE, size |-> 4,
     pages |-> <<>>, title |-> None, author |-> None]

TextFile ==
    [filename |-> <<"f",".","t","x","t">>, decodable |-> FALSE, size |-> 2,
     pages |-> <<>>, title |-> None, author |-> None]

Files == {PdfMail, PdfPhone, PdfLinks, PdfPlain, PdfBroken, TextFile}

DocIds == 1..MaxId

\* file.filename.lower().endswith(".pdf")
IsPdfName(filename) ==
    /\ Len(filename) >= 4
    /\ SubSeq(Lower(filename), Len(filename) - 3, Len(filename)) = <<".","p","d","f">>

(***************************************************************************)
(* State                                                                   *)
(***************************************************************************)
VARIABLES
    db,        \* the rows of the documents table
    now,       \* datetime.utcnow()
    deleted,   \* history: the ids delete_document has deleted
    resp,      \* the response of the request being answered, NoResp if none
    prev,      \* the first page, while its client fetches the next one
    pc,        \* per concurrent client: where its request stands
    req        \* per concurrent client: what its request holds

vars == <<db, now, deleted, resp, prev, pc, req>>

Clients == {"c1", "c2"}

NoResp == [op |-> "none"]

Init ==
    /\ db = {}
    /\ now = 0
    /\ deleted = {}
    /\ resp = NoResp
    /\ prev = NoResp
    /\ pc = [c \in Clients |-> "idle"]
    /\ req = [c \in Clients |-> NoResp]

\* time passes
Tick ==
    /\ now < MaxClock
    /\ now' = now + 1
    /\ UNCHANGED <<db, deleted, resp, prev, pc, req>>

\* the client takes the response
Respond ==
    /\ resp.op # "none"
    /\ resp' = NoResp
    /\ prev' = NoResp
    /\ UNCHANGED <<db, now, deleted, pc, req>>

(***************************************************************************)
(* Routes (src/main.py), one request at a time                             *)
(***************************************************************************)
\* the loop of get_stats over db.query(DocumentMetadata).all()
RECURSIVE SumOver(_, _)
SumOver(documents, f) ==
    IF documents = {} THEN 0
    ELSE LET doc == CHOOSE d \in documents : TRUE
         IN f[doc] + SumOver(documents \ {doc}, f)

StatsOfCountingEveryDocument(documents) ==
    [total_documents |-> Cardinality(documents),
     documents_with_pii |-> SumOver(documents, [doc \in documents |-> 1]),
     total_emails_found |->
         SumOver(documents, [doc \in documents |-> Len(parse_list(doc.emails_found))]),
     total_phone_numbers_found |->
         SumOver(documents, [doc \in documents |-> Len(parse_list(doc.phone_numbers_found))]),
     total_pages_processed |->
         SumOver(documents, [doc \in documents |-> doc.page_count])]

StatsOf(documents) ==
    [total_documents |-> Cardinality(documents),
     documents_with_pii |->
         SumOver(documents, [doc \in documents |-> IF doc.pii_found THEN 1 ELSE 0]),
     total_emails_found |->
         SumOver(documents, [doc \in documents |-> Len(parse_list(doc.emails_found))]),
     total_phone_numbers_found |->
         SumOver(documents, [doc \in documents |-> Len(parse_list(doc.phone_numbers_found))]),
     total_pages_processed |->
         SumOver(documents, [doc \in documents |-> doc.page_count])]

get_stats ==
    /\ resp.op = "none"
    /\ resp' = [op |-> "get_stats", status |-> 200, body |-> StatsOf(db)]
    /\ UNCHANGED <<db, now, deleted, prev, pc, req>>

\* resp keeps, next to the status and the body sent, the file received and
\* the dict extract_entities returned
upload_file(file) ==
    /\ resp.op = "none"
    /\ \/ /\ ~IsPdfName(file.filename)
          /\ resp' = [op |-> "upload_file", status |-> 400, file |-> file]
          /\ UNCHANGED db
       \/ /\ IsPdfName(file.filename)
          /\ ~file.decodable
          \* PdfReader raises; nothing in upload_file catches it
          /\ resp' = [op |-> "upload_file", status |-> 500, file |-> file]
          /\ UNCHANGED db
       \/ /\ IsPdfName(file.filename)
          /\ file.decodable
          /\ Cardinality(db) < MaxDocs
          /\ NextRowId(db) <= MaxId
          /\ LET pdf_data == extract_text_from_pdf(file)
                 stats == compute_content_stats(pdf_data.text)
             IN \E entities \in extract_entities(pdf_data.text) :
                  LET document == NewRow(file.filename, file.size, pdf_data, entities,
                                         stats, NextRowId(db), now)
                  IN /\ db' = db \cup {document}
                     /\ resp' = [op |-> "upload_file", status |-> 200, file |-> file,
                                 entities |-> entities,
                                 body |-> to_full_response(document)]
    /\ UNCHANGED <<now, deleted, prev, pc, req>>

get_document(document_id) ==
    /\ resp.op = "none"
    /\ LET found == {r \in db : r.id = document_id} IN
       IF found = {}
       THEN resp' = [op |-> "get_document", status |-> 404, id |-> document_id]
       ELSE resp' = [op |-> "get_document", status |-> 200, id |-> document_id,
                     body |-> to_full_response(CHOOSE r \in found : TRUE)]
    /\ UNCHANGED <<db, now, deleted, prev, pc, req>>

delete_document(document_id) ==
    /\ resp.op = "none"
    /\ LET found == {r \in db : r.id = document_id} IN
       IF found = {}
       THEN /\ resp' = [op |-> "delete_document", status |-> 404, id |-> document_id]
            /\ UNCHANGED <<db, deleted>>
       ELSE /\ db' = db \ found
            /\ deleted' = deleted \cup {document_id}
            /\ resp' = [op |-> "delete_document", status |-> 200, id |-> document_id]
    /\ UNCHANGED <<now, prev, pc, req>>

\* the WHERE clause of get_documents, one .filter() at a time
FilterPii(rows, pii_found) ==
    IF pii_found # None THEN {r \in rows : r.pii_found = pii_found[1]} ELSE rows

FilterFrom(rows, from_date) ==
    IF from_date # None THEN {r \in rows : r.created_at >= from_date[1]} ELSE rows

FilterTo(rows, to_date) ==
    IF to_date # None THEN {r \in rows : r.created_at <= to_date[1]} ELSE rows

\* "if author:" is false for None and for ""
FilterAuthor(rows, author) ==
    IF author # None /\ author[1] # <<>>
    THEN {r \in rows : ilike(r.author, Wrap(author[1]))}
    ELSE rows

ListQuery(rows, q) ==
    FilterAuthor(FilterTo(FilterFrom(FilterPii(rows, q.pii_found), q.from_date), q.to_date),
                 q.author)

\* the WHERE clause of search_documents
SearchQuery(rows, q) ==
    {r \in rows : \/ ilike(Some(r.extracted_text), Wrap(q))
                  \/ ilike(Some(r.filename), Wrap(q))
                  \/ ilike(r.title, Wrap(q))
                  \/ ilike(r.author, Wrap(q))}

\* limit: int = Query(100, le=500), offset: int = Query(0, ge=0)
ValidPage(limit, offset) == limit <= MaxLimit /\ offset >= 0

ToListResponses(documents) == [i \in 1..Len(documents) |-> to_list_response(documents[i])]

\* SearchResult(documents=[...], total=total)
SearchResultPageTotal(query, tie, limit, offset) ==
    LET documents == OffsetLimit(order_by_created_at_desc(query, tie), offset, limit)
    IN [documents |-> ToListResponses(documents), total |-> Len(documents)]

SearchResult(query, tie, limit, offset) ==
    LET total == Cardinality(query)
        documents == OffsetLimit(order_by_created_at_desc(query, tie), offset, limit)
    IN [documents |-> ToListResponses(documents), total |-> total]

\* q holds pii_found, from_date, to_date, author, limit, offset
list_documents(q, tie) ==
    IF ~ValidPage(q.limit, q.offset)
    THEN [op |-> "get_documents", status |-> 422, q |-> q, tie |-> tie]
    ELSE [op |-> "get_documents", status |-> 200, q |-> q, tie |-> tie,
          body |-> SearchResult(ListQuery(db, q), tie, q.limit, q.offset)]

get_documents(q, tie) ==
    /\ resp.op = "none"
    /\ resp' = list_documents(q, tie)
    /\ UNCHANGED <<db, now, deleted, prev, pc, req>>

\* the client of a first page (offset 0, limit N) asks for the next one
\* (offset N, limit N) with the same filters; the same statement is run
\* again on the same table, so the engine scans in the same order
get_next_page ==
    /\ resp.op = "get_documents"
    /\ prev.op = "none"
    /\ resp.status = 200
    /\ resp.q.offset = 0
    /\ prev' = resp
    /\ resp' = list_documents([resp.q EXCEPT !.offset = resp.q.limit], resp.tie)
    /\ UNCHANGED <<db, now, deleted, pc, req>>

\* q: str = Query(..., min_length=1)
search_documents(q, limit, offset, tie) ==
    /\ resp.op = "none"
    /\ IF Len(q) < 1 \/ ~ValidPage(limit, offset)
       THEN resp' = [op |-> "search_documents", status |-> 422, q |-> q,
                     limit |-> limit, offset |-> offset]
       ELSE resp' = [op |-> "search_documents", status |-> 200, q |-> q,
                     limit |-> limit, offset |-> offset,
                     body |-> SearchResult(SearchQuery(db, q), tie, limit, offset),
                     query |-> q]
    /\ UNCHANGED <<db, now, deleted, prev, pc, req>>

(***************************************************************************)
(* The same routes under concurrent clients.  upload_file is a coroutine   *)
(* that suspends at "await file.read()"; delete_document runs in a worker  *)
(* thread; SQLite serialises the statements of a commit.                   *)
(***************************************************************************)
upload_start(c, file) ==
    /\ pc[c] = "idle"
    /\ IF ~IsPdfName(file.filename)
       THEN /\ pc' = [pc EXCEPT ![c] = "done"]
            /\ req' = [req EXCEPT ![c] = [op |-> "upload_file", status |-> 400]]
       ELSE /\ pc' = [pc EXCEPT ![c] = "reading"]
            /\ req' = [req EXCEPT ![c] = [op |-> "upload_file", file |-> file]]
    /\ UNCHANGED <<db, now, deleted, resp, prev>>

upload_extract(c) ==
    /\ pc[c] = "reading"
    /\ LET file == req[c].file IN
       IF ~file.decodable
       THEN /\ pc' = [pc EXCEPT ![c] = "done"]
            /\ req' = [req EXCEPT ![c] = [op |-> "upload_file", status |-> 500]]
       ELSE LET pdf_data == extract_text_from_pdf(file)
                stats == compute_content_stats(pdf_data.text)
            IN \E entities \in extract_entities(pdf_data.text) :
                 /\ pc' = [pc EXCEPT ![c] = "assembled"]
                 /\ req' = [req EXCEPT ![c] = [op |-> "upload_file", file |-> file,
                                               pdf_data |-> pdf_data,
                                               entities |-> entities,
                                               stats |-> stats]]
    /\ UNCHANGED <<db, now, deleted, resp, prev>>

\* db.add(document); db.commit(); db.refresh(document)
upload_commit(c) ==
    /\ pc[c] = "assembled"
    /\ Cardinality(db) < MaxDocs
    /\ NextRowId(db) <= MaxId
    /\ LET document == NewRow(req[c].file.filename, req[c].file.size, req[c].pdf_data,
                              req[c].entities, req[c].stats, NextRowId(db), now)
       IN /\ db' = db \cup {document}
          /\ pc' = [pc EXCEPT ![c] = "done"]
          /\ req' = [req EXCEPT ![c] = [op |-> "upload_file", status |-> 200,
                                        body |-> to_full_response(document)]]
    /\ UNCHANGED <<now, deleted, resp, prev>>

delete_lookup(c, document_id) ==
    /\ pc[c] = "idle"
    /\ IF \A r \in db : r.id # document_id
       THEN /\ pc' = [pc EXCEPT ![c] = "done"]
            /\ req' = [req EXCEPT ![c] = [op |-> "delete_document", status |-> 404,
                                          id |-> document_id]]
       ELSE /\ pc' = [pc EXCEPT ![c] = "deleting"]
            /\ req' = [req EXCEPT ![c] = [op |-> "delete_document", id |-> document_id]]
    /\ UNCHANGED <<db, now, deleted, resp, prev>>

\* db.delete(document); db.commit(): DELETE FROM documents WHERE id = ?
\* (a DELETE that matches no row any more makes the ORM warn, not raise)
delete_commit(c) ==
    /\ pc[c] = "deleting"
    /\ db' = {r \in db : r.id # req[c].id}
    /\ deleted' = deleted \cup {req[c].id}
    /\ pc' = [pc EXCEPT ![c] = "done"]
    /\ req' = [req EXCEPT ![c] = [op |-> "delete_document", status |-> 200,
                                  id |-> req[c].id]]
    /\ UNCHANGED <<now, resp, prev>>

\* the client takes the response and may send another request
finish(c) ==
    /\ pc[c] = "done"
    /\ pc' = [pc EXCEPT ![c] = "idle"]
    /\ req' = [req EXCEPT ![c] = NoResp]
    /\ UNCHANGED <<db, now, deleted, resp, prev>>

(***************************************************************************)
(* Specifications                                                          *)
(***************************************************************************)
\* Uploads, lookups, deletes and statistics, one request at a time.  No
\* handler of this specification reads created_at, and the clock stands.
Next ==
    \/ \E file \in Files : upload_file(file)
    \/ \E document_id \in DocIds : get_document(document_id)
    \/ \E document_id \in DocIds : delete_document(document_id)
    \/ get_stats
    \/ Respond

Spec == Init /\ [][Next]_vars

\* Listing and search over a growing table while time passes.
QueryFiles == {PdfMail, PdfLinks}

PiiFilters == {None, Some(TRUE), Some(FALSE)}
FromDates == {None, Some(1)}
ToDates == {None, Some(0)}
AuthorFilters == {None, Some(<<>>), Some(<<"b","O">>), Some(<<"_">>)}
Pages == {[offset |-> 0, limit |-> 1], [offset |-> 0, limit |-> 2],
          [offset |-> 1, limit |-> -1]}
Ties == {"asc", "desc"}

ListRequests ==
    {[pii_found |-> p, from_date |-> f, to_date |-> t, author |-> a,
      limit |-> pg.limit, offset |-> pg.offset] :
        p \in PiiFilters, f \in FromDates, t \in ToDates, a \in AuthorFilters, pg \in Pages}
    \cup {[pii_found |-> None, from_date |-> None, to_date |-> None, author |-> None,
           limit |-> MaxLimit + 1, offset |-> 0],
          [pii_found |-> None, from_date |-> None, to_date |-> None, author |-> None,
           limit |-> -1, offset |-> 0]}

SearchTerms == {<<"B","O","B">>, <<"b","o">>, <<"z">>, <<"_">>, <<"%">>, <<>>}

QueryNext ==
    \/ Tick
    \/ \E file \in QueryFiles : upload_file(file)
    \/ \E q \in ListRequests, tie \in Ties : get_documents(q, tie)
    \/ get_next_page
    \/ \E q \in SearchTerms, pg \in Pages, tie \in Ties :
           search_documents(q, pg.limit, pg.offset, tie)
    \/ Respond

QuerySpec == Init /\ [][QueryNext]_vars

\* Uploads and deletes of concurrent clients, the clock standing.
ConcFiles == {PdfMail, PdfBroken, TextFile}

ConcNext ==
    \/ \E c \in Clients, file \in ConcFiles : upload_start(c, file)
    \/ \E c \in Clients : upload_extract(c)
    \/ \E c \in Clients : upload_commit(c)
    \/ \E c \in Clients, document_id \in DocIds : delete_lookup(c, document_id)
    \/ \E c \in Clients : delete_commit(c)
    \/ \E c \in Clients : finish(c)

ConcSpec == Init /\ [][ConcNext]_vars

(***************************************************************************)
(* Properties                                                              *)
(***************************************************************************)
Ids(rows) == {r.id : r \in rows}

PageIds(body) == {body.documents[i].id : i \in 1..Len(body.documents)}

\* sub occurs in s, upper and lower case taken as equal
Contains(s, sub) ==
    \E i \in 1..(Len(s) + 1) :
        /\ i + Len(sub) - 1 <= Len(s)
        /\ SubSeq(Lower(s), i, i + Len(sub) - 1) = Lower(sub)

OptContains(column, sub) == column # None /\ Contains(column[1], sub)

\* C1: every stored record has pii_found true exactly when the emails or the
\* phone numbers decoded from its comma-joined columns are non-empty.
C1_PiiFlagDerived ==
    \A r \in db :
        r.pii_found = (Len(parse_list(r.emails_found)) > 0
                       \/ Len(parse_list(r.phone_numbers_found)) > 0)

C1_Witness ==
    /\ deleted # {}
    /\ \E r \in db : r.pii_found /\ r.emails_found = <<>> /\ r.phone_numbers_found # <<>>
    /\ \E r \in db : r.pii_found /\ r.emails_found # <<>>
    /\ \E r \in db : ~r.pii_found /\ r.extracted_text # <<>>

\* C2: once delete_document(id) has succeeded, every later get_document(id)
\* answers not-found and no stored record carries that id.
C2_DeletedStaysNotFound ==
    /\ (resp.op = "get_document" /\ resp.id \in deleted) => resp.status = 404
    /\ Ids(db) \cap deleted = {}

\* C3: with the store unchanged, the page at offset 0, limit N and the page
\* at offset N, limit N of one filter combination share no identifier, and
\* together they are the first 2N records of the full result in descending
\* order of created_at.
C3_PagesPartitionFirst2N ==
    (prev.op = "get_documents" /\ resp.op = "get_documents" /\ resp.status = 200) =>
        LET N == prev.q.limit
            full == ListQuery(db, prev.q)
            first == PageIds(prev.body)
            second == PageIds(resp.body)
            both == {r \in full : r.id \in first \cup second}
        IN /\ first \cap second = {}
           /\ Cardinality(first) = Len(prev.body.documents)
           /\ Cardinality(second) = Len(resp.body.documents)
           /\ first \cup second \subseteq Ids(full)
           /\ Cardinality(first \cup second) = Min2(2 * N, Cardinality(full))
           /\ \A r \in both, o \in full \ both : r.created_at >= o.created_at

C3_Witness ==
    /\ prev.op = "get_documents"
    /\ resp.op = "get_documents"
    /\ resp.status = 200
    /\ prev.q.limit = 1
    /\ prev.q.author # None
    /\ Len(prev.body.documents) = 1
    /\ Len(resp.body.documents) = 1
    /\ prev.body.total = 3
    /\ \E r1, r2 \in db : r1.id # r2.id /\ r1.created_at = r2.created_at
                          /\ r1.id \in PageIds(prev.body) /\ r2.id \in PageIds(resp.body)

RowMatchesList(r, q) ==
    /\ q.pii_found # None => r.pii_found = q.pii_found[1]
    /\ q.from_date # None => r.created_at >= q.from_date[1]
    /\ q.to_date # None => r.created_at <= q.to_date[1]
    /\ (q.author # None /\ q.author[1] # <<>>) => ilike(r.author, Wrap(q.author[1]))

RowMatchesSearch(r, q) ==
    \E column \in {Some(r.extracted_text), Some(r.filename), r.title, r.author} :
        ilike(column, Wrap(q))

\* C4: the total of get_documents and of search_documents is the number of
\* stored records the query's predicates select, whatever offset and limit.
C4_TotalCountsAllMatches ==
    /\ (resp.op = "get_documents" /\ resp.status = 200) =>
           resp.body.total = Cardinality({r \in db : RowMatchesList(r, resp.q)})
    /\ (resp.op = "search_documents" /\ resp.status = 200) =>
           resp.body.total = Cardinality({r \in db : RowMatchesSearch(r, resp.q)})

C4_Witness ==
    /\ resp.op = "search_documents"
    /\ resp.status = 200
    /\ resp.offset = 0
    /\ resp.limit = 1
    /\ Cardinality(db) = 3
    /\ resp.body.total = 2
    /\ Len(resp.body.documents) = 1

\* C5: get_stats answers with total_documents the number of stored records
\* and documents_with_pii the number of them whose pii_found is true.
C5_StatsCountStore ==
    resp.op = "get_stats" =>
        /\ resp.body.total_documents = Cardinality(db)
        /\ resp.body.documents_with_pii = Cardinality({r \in db : r.pii_found})

C5_Witness ==
    /\ resp.op = "get_stats"
    /\ deleted # {}
    /\ resp.body.total_documents = 2
    /\ resp.body.documents_with_pii = 1

RejectedInput == 400..499

\* C6: an upload PdfReader cannot decode is answered with a rejected-input
\* status, and the stored records are what they were before the call.
C6_UndecodableRejected ==
    [][(resp.op = "none" /\ resp'.op = "upload_file" /\ ~resp'.file.decodable) =>
           (resp'.status \in RejectedInput /\ db' = db)]_vars

\* C7: none of the four entity collections holds a value twice, neither as
\* extract_entities returns it nor as parse_list decodes it from the row.
C7_NoDuplicateEntities ==
    /\ (resp.op = "upload_file" /\ resp.status = 200) =>
           /\ NoDuplicates(resp.entities.emails)
           /\ NoDuplicates(resp.entities.phone_numbers)
           /\ NoDuplicates(resp.entities.urls)
           /\ NoDuplicates(resp.entities.dates)
    /\ \A r \in db :
           /\ NoDuplicates(to_full_response(r).emails_found)
           /\ NoDuplicates(to_full_response(r).phone_numbers_found)
           /\ NoDuplicates(to_full_response(r).urls_found)
           /\ NoDuplicates(to_full_response(r).dates_found)

\* the page holds every match: nothing is skipped and nothing cut off
WholeResult(limit, offset, body) ==
    offset = 0 /\ (limit < 0 \/ limit >= body.total)

\* C8: search_documents(q) returns every stored document whose author
\* contains q, and an empty page with total 0 when q occurs in the extracted
\* text, filename, title and author of no stored record.
C8_SearchBySubstring ==
    (resp.op = "search_documents" /\ resp.status = 200) =>
        /\ \A r \in db :
               (OptContains(r.author, resp.q)
                   /\ WholeResult(resp.limit, resp.offset, resp.body))
               => r.id \in PageIds(resp.body)
        /\ (\A r \in db : /\ ~Contains(r.extracted_text, resp.q)
                          /\ ~Contains(r.filename, resp.q)
                          /\ ~OptContains(r.title, resp.q)
                          /\ ~OptContains(r.author, resp.q))
           => (resp.body.documents = <<>> /\ resp.body.total = 0)

C9_UniqueIds == \A r1, r2 \in db : r1.id = r2.id => r1 = r2

C9_UploadAddsOne ==
    \A c \in Clients :
        (pc[c] = "assembled" /\ pc'[c] = "done") =>
            /\ Cardinality(db') = Cardinality(db) + 1
            /\ db \subseteq db'
            /\ \A r \in db' \ db : r.id = req'[c].body.id /\ r.id \notin Ids(db)

C9_RecordKeepsId ==
    \A r \in db :
        r \in db' \/ \E c \in Clients : pc[c] = "deleting" /\ pc'[c] = "done" /\ req[c].id = r.id

\* C9: under interleaved uploads and deletes every committed upload adds
\* exactly one record, no two stored records share an id, and a stored
\* record stays as it is, id included, until a delete of its id removes it.
C9_ConcurrentIdentity ==
    []C9_UniqueIds /\ [][C9_UploadAddsOne /\ C9_RecordKeepsId]_vars

C9_Witness ==
    /\ \A c \in Clients : pc[c] = "done" /\ req[c].op = "upload_file" /\ req[c].status = 200
    /\ req["c1"].body.id # req["c2"].body.id
    /\ deleted # {}
    /\ Cardinality(db) = 3

\* the predicates of get_documents as the listing contract words them
SatisfiesFilters(r, q) ==
    /\ q.pii_found # None => r.pii_found = q.pii_found[1]
    /\ q.from_date # None => r.created_at >= q.from_date[1]
    /\ q.to_date # None => r.created_at <= q.to_date[1]
    /\ (q.author # None /\ q.author[1] # <<>>) => OptContains(r.author, q.author[1])

\* C10: get_documents returns the stored records that satisfy all supplied
\* predicates (author: contains the given string, case-insensitively), an
\* omitted predicate excluding nothing, in descending order of created_at.
C10_ListingFilters ==
    (resp.op = "get_documents" /\ resp.status = 200) =>
        LET matching == {r \in db : SatisfiesFilters(r, resp.q)}
            page == resp.body.documents
        IN /\ PageIds(resp.body) \subseteq Ids(matching)
           /\ WholeResult(resp.q.limit, resp.q.offset, resp.body)
                  => PageIds(resp.body) = Ids(matching)
           /\ \A i, j \in 1..Len(page) : i < j => page[i].created_at >= page[j].created_at

====
